---------------------------- MODULE Spec2Model ----------------------------
(***************************************************************************)
(* State-machine model of the NetBox REST API viewset mixins               *)
(* (netbox/netbox/api/viewsets/mixins.py) over a table of TenantGroup-like *)
(* rows (netbox/tenancy/api/serializers.py).                               *)
(*                                                                         *)
(* One request is served at a time (pc: ready, inside a loop, done).       *)
(* `db` is the table as the running request sees it (inside its           *)
(* transaction); `tx` is the table as it was when the request began, which *)
(* is what a rollback returns to.                                          *)
(***************************************************************************)
EXTENDS Integers, Sequences, FiniteSets, TLC

\* Bounds of the model.
MaxId == 2
MaxLen == 2

Ids == 1..MaxId
Names == {"a", "b"}
Blank == ""
Absent == "absent"
NoParent == "noparent"
NoParam == "noparam"
NoData == [null |-> TRUE]

\* HTTP status codes used by the handlers.
HTTP_200_OK == 200
HTTP_201_CREATED == 201
HTTP_204_NO_CONTENT == 204
HTTP_400_BAD_REQUEST == 400
HTTP_404_NOT_FOUND == 404
HTTP_500_SERVER_ERROR == 500

VARIABLES db, scope, tx, pc, req, objects, out, calls, resp

vars == <<db, scope, tx, pc, req, objects, out, calls, resp>>

SeqsUpTo(S) == UNION {[1..k -> S] : k \in 0..MaxLen}

Max(S) == CHOOSE x \in S : \A y \in S : y <= x

---------------------------------------------------------------------------
\* Request payload domains.

\* An "id" as it arrives in JSON: the integer n, the string of its digits, or
\* something that is no integer (or no id at all).
NotAnInteger == [form |-> "bad", n |-> 0]

IdInputs == [form : {"int", "str"}, n : Ids] \cup {NotAnInteger}

IntKey(n) == [form |-> "int", n |-> n]

\* Field data of a TenantGroup: name (required, not blank) and optional parent,
\* given by the parent's name.
UpdateFields == [name : Names \cup {Blank}, parent : {NoParent}]
CreateFields == [name : Names \cup {Blank}, parent : Names \cup {NoParent}]

UpdateItems == [id : IdInputs, data : UpdateFields]
DestroyItems == [id : IdInputs, data : {NoData}]

Models == {"Tenant", "TenantGroup"}

NoReq ==
    [op |-> "none", method |-> "GET", isList |-> TRUE, items |-> <<>>,
     creates |-> <<>>, partial |-> FALSE, instance |-> <<>>,
     brief |-> NoParam, model |-> "Tenant", registered |-> TRUE,
     annotations |-> {}, prefetch |-> {}, export |-> NoParam,
     templates |-> {}, filter |-> NoParam]

NoResp ==
    [status |-> 0, exc |-> "none", body |-> <<>>, handler |-> "none",
     serializer |-> "none", fields |-> {}, annotations |-> {},
     prefetch |-> {}, template |-> NoParam]

---------------------------------------------------------------------------
\* The ORM.

\* The view's permission-restricted queryset: the rows whose attributes the
\* requesting identity's ObjectPermissions allow.
Queryset(d, sc) == {i \in Ids : d[i] # Absent /\ d[i] \in sc}

\* A queryset is iterated in the model's ordering (by primary key).
RECURSIVE OrderByPk(_)
OrderByPk(S) ==
    IF S = {} THEN <<>>
    ELSE LET m == CHOOSE x \in S : \A y \in S : x <= y
         IN  <<m>> \o OrderByPk(S \ {m})

\* qs.filter(pk__in=ids)
FilterPkIn(qs, ids) == {i \in qs : \E k \in 1..Len(ids) : ids[k] = i}

\* Representation of a row returned by serializer.data.
Rep(i, name) == [id |-> i, name |-> name]

RepsOf(d, ids) == [k \in 1..Len(ids) |-> Rep(ids[k], d[ids[k]])]

---------------------------------------------------------------------------
\* Serializers.

\* IntegerField.to_internal_value: 123 and "123" both validate to 123.
ToInt(idIn) == idIn.n

\* BulkOperationSerializer(data=request.data, many=True).is_valid(): the body
\* must be a list and every item's id an integer.
BulkOperationValid(isList, items) ==
    isList /\ \A k \in 1..Len(items) : items[k].id.form # "bad"

\* [o['id'] for o in serializer.data]
SerializerIds(items) == [k \in 1..Len(items) |-> ToInt(items[k].id)]

\* parent = NestedTenantGroupSerializer(required=False, allow_null=True): when
\* given, the parent must name an existing row.
ParentExists(d, data) ==
    data.parent = NoParent \/ \E i \in Ids : d[i] = data.parent

\* serializer.is_valid() of the model serializer: data=None is rejected
\* ("may not be null"), a blank name is rejected, the parent must exist.
SerializerValid(d, data) ==
    /\ data # NoData
    /\ data.name # Blank
    /\ ParentExists(d, data)

---------------------------------------------------------------------------
\* Transactions.

\* A create without the atomic decorator: nothing is rolled back.
NoAtomicDecorator(before, now, raised) == now

\* @transaction.atomic on SequentialBulkCreatesMixin.create: an exception
\* leaving the function rolls the table back to where the function began.
AtomicDecorator(before, now, raised) == IF raised THEN before ELSE now

\* A loop without the atomic block: nothing is rolled back.
NoAtomicBlock(before, now, raised) == now

\* `with transaction.atomic():` in perform_bulk_update / perform_bulk_destroy.
AtomicBlock(before, now, raised) == IF raised THEN before ELSE now

---------------------------------------------------------------------------
Init ==
    /\ db \in [Ids -> Names \cup {Absent}]
    /\ scope \in {Names, {"a"}}
    /\ tx = db
    /\ pc = "ready"
    /\ req = NoReq
    /\ objects = <<>>
    /\ out = <<>>
    /\ calls = <<>>
    /\ resp = NoResp

\* Every request starts from a ready worker with fresh locals.
Begin(r) ==
    /\ pc = "ready"
    /\ req' = r
    /\ tx' = db
    /\ out' = <<>>
    /\ calls' = <<>>

---------------------------------------------------------------------------
\* SequentialBulkCreatesMixin.create

FreeIds(d) == {i \in Ids : d[i] = Absent}

\* Validation of the whole list up front, against the table as the request
\* found it.
CreateValidBefore(now, before, data) == SerializerValid(before, data)

\* The validation of one item of the list sees the table as it is now, inside
\* the transaction.
CreateValid(now, before, data) == SerializerValid(now, data)

\* request.data is not a list: super().create(), inside the atomic decorator.
CreateSingle ==
    /\ pc = "ready"
    /\ \E data \in CreateFields :
        /\ Begin([NoReq EXCEPT !.op = "create", !.method = "POST",
                               !.isList = FALSE, !.creates = <<data>>])
        /\ FreeIds(db) # {}
        /\ IF SerializerValid(db, data)
           THEN \E i \in FreeIds(db) :
                    /\ db' = AtomicDecorator(db, [db EXCEPT ![i] = data.name], FALSE)
                    /\ resp' = [NoResp EXCEPT !.status = HTTP_201_CREATED,
                                              !.body = <<Rep(i, data.name)>>,
                                              !.handler = "super.create"]
           ELSE /\ db' = AtomicDecorator(db, db, TRUE)
                /\ resp' = [NoResp EXCEPT !.status = HTTP_400_BAD_REQUEST,
                                          !.exc = "ValidationError",
                                          !.handler = "super.create"]
        /\ pc' = "done"
        /\ UNCHANGED <<scope, objects>>

\* request.data is a list: enter the transaction with return_data = [].
CreateList ==
    /\ pc = "ready"
    /\ \E items \in SeqsUpTo(CreateFields) :
        /\ Begin([NoReq EXCEPT !.op = "create", !.method = "POST",
                               !.isList = TRUE, !.creates = items])
        /\ Cardinality(FreeIds(db)) >= Len(items)
        /\ pc' = "create"
        /\ resp' = NoResp
        /\ UNCHANGED <<db, scope, objects>>

\* One iteration of `for data in request.data`.
CreateStep ==
    /\ pc = "create"
    /\ Len(out) < Len(req.creates)
    /\ LET data == req.creates[Len(out) + 1] IN
        /\ calls' = Append(calls, [obj |-> 0, data |-> data, partial |-> FALSE])
        /\ IF CreateValid(db, tx, data)
           THEN \E i \in FreeIds(db) :
                    /\ db' = [db EXCEPT ![i] = data.name]
                    /\ out' = Append(out, Rep(i, data.name))
                    /\ UNCHANGED <<pc, resp>>
           ELSE /\ db' = AtomicDecorator(tx, db, TRUE)
                /\ pc' = "done"
                /\ resp' = [NoResp EXCEPT !.status = HTTP_400_BAD_REQUEST,
                                          !.exc = "ValidationError"]
                /\ UNCHANGED out
    /\ UNCHANGED <<scope, tx, req, objects>>

\* After the loop: get_success_headers(serializer.data), then the Response.
\* `serializer` is bound by the loop body only, so an empty list raises
\* UnboundLocalError here.
CreateFinish ==
    /\ pc = "create"
    /\ Len(out) = Len(req.creates)
    /\ pc' = "done"
    /\ IF Len(req.creates) = 0
       THEN /\ db' = AtomicDecorator(tx, db, TRUE)
            /\ resp' = [NoResp EXCEPT !.status = HTTP_500_SERVER_ERROR,
                                      !.exc = "UnboundLocalError"]
       ELSE /\ db' = AtomicDecorator(tx, db, FALSE)
            /\ resp' = [NoResp EXCEPT !.status = HTTP_201_CREATED, !.body = out]
    /\ UNCHANGED <<scope, tx, req, objects, out, calls>>

---------------------------------------------------------------------------
\* BulkUpdateModelMixin

\* update_data = {obj.pop('id'): obj for obj in request.data}, read with
\* update_data.get(key): the data of the last item whose id equals the key as
\* a dictionary key, None when there is none.
UpdateDataGet(items, key) ==
    LET hits == {k \in 1..Len(items) : items[k].id = key}
    IN  IF hits = {} THEN NoData ELSE items[Max(hits)].data

\* Iterating the payload's ids instead of the filtered queryset.
PayloadOrderQueryset(d, sc, items) ==
    SelectSeq(SerializerIds(items), LAMBDA i : i \in Queryset(d, sc))

\* get_bulk_update_queryset().filter(pk__in=[o['id'] for o in serializer.data])
BulkUpdateQueryset(d, sc, items) ==
    OrderByPk(FilterPkIn(Queryset(d, sc), SerializerIds(items)))

\* bulk_update up to the call of perform_bulk_update; bulk_partial_update is
\* bulk_update with partial=True.
BulkUpdate ==
    /\ pc = "ready"
    /\ \E isList \in BOOLEAN, items \in SeqsUpTo(UpdateItems), partial \in BOOLEAN :
        /\ isList \/ items = <<>>
        /\ Begin([NoReq EXCEPT !.op = "bulk_update", !.method = "PATCH",
                               !.isList = isList, !.items = items,
                               !.partial = partial])
        /\ IF BulkOperationValid(isList, items)
           THEN /\ objects' = BulkUpdateQueryset(db, scope, items)
                /\ pc' = "update"
                /\ resp' = NoResp
           ELSE /\ objects' = <<>>
                /\ pc' = "done"
                /\ resp' = [NoResp EXCEPT !.status = HTTP_400_BAD_REQUEST,
                                          !.exc = "ValidationError"]
        /\ UNCHANGED <<db, scope>>

\* One iteration of `for obj in objects` in perform_bulk_update.
UpdateStep ==
    /\ pc = "update"
    /\ objects # <<>>
    /\ LET obj == Head(objects)
           data == UpdateDataGet(req.items, IntKey(obj))
       IN
        /\ calls' = Append(calls, [obj |-> obj, data |-> data, partial |-> req.partial])
        /\ IF SerializerValid(db, data)
           THEN /\ db' = [db EXCEPT ![obj] = data.name]
                /\ out' = Append(out, Rep(obj, data.name))
                /\ objects' = Tail(objects)
                /\ UNCHANGED <<pc, resp>>
           ELSE /\ db' = AtomicBlock(tx, db, TRUE)
                /\ pc' = "done"
                /\ resp' = [NoResp EXCEPT !.status = HTTP_400_BAD_REQUEST,
                                          !.exc = "ValidationError"]
                /\ UNCHANGED <<out, objects>>
    /\ UNCHANGED <<scope, tx, req>>

\* return data_list; Response(data, status=200)
UpdateFinish ==
    /\ pc = "update"
    /\ objects = <<>>
    /\ pc' = "done"
    /\ db' = AtomicBlock(tx, db, FALSE)
    /\ resp' = [NoResp EXCEPT !.status = HTTP_200_OK, !.body = out]
    /\ UNCHANGED <<scope, tx, req, objects, out, calls>>

---------------------------------------------------------------------------
\* BulkDestroyModelMixin

\* Filtering the model's whole table instead of the view's queryset.
UnrestrictedDestroyQueryset(d, sc, items) ==
    OrderByPk(FilterPkIn({i \in Ids : d[i] # Absent}, SerializerIds(items)))

\* get_bulk_destroy_queryset().filter(pk__in=[o['id'] for o in serializer.data])
BulkDestroyQueryset(d, sc, items) ==
    OrderByPk(FilterPkIn(Queryset(d, sc), SerializerIds(items)))

BulkDestroy ==
    /\ pc = "ready"
    /\ \E isList \in BOOLEAN, items \in SeqsUpTo(DestroyItems) :
        /\ isList \/ items = <<>>
        /\ Begin([NoReq EXCEPT !.op = "bulk_destroy", !.method = "DELETE",
                               !.isList = isList, !.items = items])
        /\ IF BulkOperationValid(isList, items)
           THEN /\ objects' = BulkDestroyQueryset(db, scope, items)
                /\ pc' = "destroy"
                /\ resp' = NoResp
           ELSE /\ objects' = <<>>
                /\ pc' = "done"
                /\ resp' = [NoResp EXCEPT !.status = HTTP_400_BAD_REQUEST,
                                          !.exc = "ValidationError"]
        /\ UNCHANGED <<db, scope>>

\* One iteration of `for obj in objects` in perform_bulk_destroy;
\* perform_destroy may raise (a protected row, a database error).
DestroyStep ==
    /\ pc = "destroy"
    /\ objects # <<>>
    /\ \E raised \in BOOLEAN :
        IF raised
        THEN /\ db' = AtomicBlock(tx, db, TRUE)
             /\ pc' = "done"
             /\ resp' = [NoResp EXCEPT !.status = HTTP_500_SERVER_ERROR,
                                       !.exc = "PerformDestroyError"]
             /\ UNCHANGED <<out, objects>>
        ELSE /\ db' = [db EXCEPT ![Head(objects)] = Absent]
             /\ out' = Append(out, Rep(Head(objects), db[Head(objects)]))
             /\ objects' = Tail(objects)
             /\ UNCHANGED <<pc, resp>>
    /\ UNCHANGED <<scope, tx, req, calls>>

\* Response(status=204)
DestroyFinish ==
    /\ pc = "destroy"
    /\ objects = <<>>
    /\ pc' = "done"
    /\ db' = AtomicBlock(tx, db, FALSE)
    /\ resp' = [NoResp EXCEPT !.status = HTTP_204_NO_CONTENT]
    /\ UNCHANGED <<scope, tx, req, objects, out, calls>>

---------------------------------------------------------------------------
\* BriefModeMixin

\* Meta.fields of the full serializers.
TenantGroupSerializerFields ==
    {"id", "url", "name", "slug", "parent", "description", "custom_fields",
     "created", "last_updated", "tenant_count", "_depth"}

TenantSerializerFields ==
    {"id", "url", "name", "slug", "group", "description", "comments", "tags",
     "custom_fields", "created", "last_updated", "circuit_count",
     "device_count", "ipaddress_count", "prefix_count", "rack_count",
     "site_count", "virtualmachine_count", "vlan_count", "vrf_count",
     "cluster_count"}

\* Meta.fields of the nested serializers (tenancy/api/nested_serializers.py).
NestedTenantGroupSerializerFields ==
    {"id", "url", "name", "slug", "tenant_count", "_depth"}

NestedTenantSerializerFields == {"id", "url", "name", "slug"}

\* The view's serializer_class for a model, and the name the nested one has.
SerializerClass(model) == model \o "Serializer"

NESTED_SERIALIZER_PREFIX == "Nested"

SerializerFields(serializer) ==
    CASE serializer = "TenantSerializer" -> TenantSerializerFields
      [] serializer = "TenantGroupSerializer" -> TenantGroupSerializerFields
      [] serializer = "NestedTenantSerializer" -> NestedTenantSerializerFields
      [] serializer = "NestedTenantGroupSerializer" -> NestedTenantGroupSerializerFields

\* Values a query string can give the `brief` parameter; request.GET.get
\* returns None when it is absent.
BriefParams == {NoParam, "", "true", "false"}

\* Python truth of request.GET.get('brief'): None and '' are false.
Truthy(param) == param # NoParam /\ param # ""

\* Brief mode on any method.
InitializeRequestAnyMethod(method, param) == Truthy(param)

\* self.brief = request.method == 'GET' and request.GET.get('brief')
InitializeRequest(method, param) == method = "GET" /\ Truthy(param)

\* get_serializer_for_model raises SerializerNotFound when no nested
\* serializer is registered for the model; then serializer_class is used.
GetSerializerClass(brief, model, registered) ==
    IF brief /\ registered
    THEN NESTED_SERIALIZER_PREFIX \o SerializerClass(model)
    ELSE SerializerClass(model)

brief_prefetch_fields == {}

\* get_queryset: in brief mode the annotations the chosen serializer does not
\* have are dropped, and the prefetches are replaced by brief_prefetch_fields.
GetQuerysetAnnotations(brief, serializer, annotations) ==
    IF brief THEN annotations \cap SerializerFields(serializer) ELSE annotations

GetQuerysetPrefetch(brief, prefetch) ==
    IF brief THEN brief_prefetch_fields ELSE prefetch

AnnotationNames == {"tenant_count", "circuit_count"}
PrefetchNames == {"tags"}

\* A request through initialize_request, get_serializer_class and get_queryset.
BriefRequest ==
    /\ pc = "ready"
    /\ \E method \in {"GET", "POST"}, param \in BriefParams, model \in Models,
       registered \in BOOLEAN, annotations \in SUBSET AnnotationNames,
       prefetch \in SUBSET PrefetchNames :
        /\ Begin([NoReq EXCEPT !.op = "serialize", !.method = method,
                               !.brief = param, !.model = model,
                               !.registered = registered,
                               !.annotations = annotations,
                               !.prefetch = prefetch])
        /\ LET brief == InitializeRequest(method, param)
               serializer == GetSerializerClass(brief, model, registered)
           IN  resp' = [NoResp EXCEPT
                   !.handler = "get_serializer_class",
                   !.serializer = serializer,
                   !.fields = SerializerFields(serializer),
                   !.annotations = GetQuerysetAnnotations(brief, serializer, annotations),
                   !.prefetch = GetQuerysetPrefetch(brief, prefetch)]
        /\ pc' = "done"
        /\ UNCHANGED <<db, scope, objects>>

---------------------------------------------------------------------------
\* ExportTemplatesMixin.list

\* ContentType.objects.get_for_model(self.get_serializer_class().Meta.model)
ContentTypeOf(model) == IF model = "Tenant" THEN "tenant" ELSE "tenantgroup"

ExportTemplates == [content_type : {"tenant", "tenantgroup"}, name : {"csv", "tsv"}]

\* A lookup by name alone, whatever the content type.
TemplateFoundAnyType(templates, model, name) ==
    \E t \in templates : t.name = name

\* ExportTemplate.objects.filter(content_types=content_type, name=...).first()
\* is not None
TemplateFound(templates, model, name) ==
    \E t \in templates : t.content_type = ContentTypeOf(model) /\ t.name = name

\* self.filter_queryset(self.get_queryset()) with a filter on the name.
FilterQueryset(d, sc, filter) ==
    {i \in Queryset(d, sc) : filter = NoParam \/ d[i] = filter}

\* What list answers: raise Http404, the template's rendering, or the parent's
\* list.
ExportListResponse(d, sc, export, templates, model, filter) ==
    LET rows == RepsOf(d, OrderByPk(FilterQueryset(d, sc, filter))) IN
    IF export # NoParam
    THEN IF ~TemplateFound(templates, model, export)
         THEN [NoResp EXCEPT !.status = HTTP_404_NOT_FOUND, !.exc = "Http404",
                             !.handler = "lookup"]
         ELSE [NoResp EXCEPT !.status = HTTP_200_OK, !.body = rows,
                             !.handler = "render_to_response",
                             !.template = export]
    ELSE [NoResp EXCEPT !.status = HTTP_200_OK, !.body = rows,
                        !.handler = "super.list"]

ExportList ==
    /\ pc = "ready"
    /\ \E export \in {NoParam, "csv", "tsv"}, templates \in SUBSET ExportTemplates,
       model \in Models, filter \in {NoParam, "a"} :
        /\ Begin([NoReq EXCEPT !.op = "list", !.method = "GET",
                               !.export = export, !.templates = templates,
                               !.model = model, !.filter = filter])
        /\ resp' = ExportListResponse(db, scope, export, templates, model, filter)
        /\ pc' = "done"
        /\ UNCHANGED <<db, scope, objects>>

---------------------------------------------------------------------------
\* ObjectValidationMixin._validate_objects

\* Whether _validate_objects raises ObjectDoesNotExist: for a list, the count
\* of queryset rows with pk__in the instances' pks differs from len(instance);
\* for one instance, no queryset row has its pk.
ValidateObjectsRaises(qs, isList, instance) ==
    IF isList
    THEN Cardinality(FilterPkIn(qs, instance)) # Len(instance)
    ELSE ~(instance[1] \in qs)

ValidateObjects ==
    /\ pc = "ready"
    /\ \E isList \in BOOLEAN, instance \in SeqsUpTo(Ids) :
        /\ isList \/ Len(instance) = 1
        /\ Begin([NoReq EXCEPT !.op = "validate", !.isList = isList,
                               !.instance = instance])
        /\ resp' = [NoResp EXCEPT
                       !.handler = "_validate_objects",
                       !.exc = IF ValidateObjectsRaises(Queryset(db, scope), isList, instance)
                               THEN "ObjectDoesNotExist" ELSE "none"]
        /\ pc' = "done"
        /\ UNCHANGED <<db, scope, objects>>

---------------------------------------------------------------------------
\* The response has been sent; the worker drops the request's locals and is
\* ready for the next request.
Return ==
    /\ pc = "done"
    /\ pc' = "ready"
    /\ req' = NoReq
    /\ resp' = NoResp
    /\ tx' = db
    /\ objects' = <<>>
    /\ out' = <<>>
    /\ calls' = <<>>
    /\ UNCHANGED <<db, scope>>

Next ==
    \/ CreateSingle
    \/ CreateList
    \/ CreateStep
    \/ CreateFinish
    \/ BulkUpdate
    \/ UpdateStep
    \/ UpdateFinish
    \/ BulkDestroy
    \/ DestroyStep
    \/ DestroyFinish
    \/ BriefRequest
    \/ ExportList
    \/ ValidateObjects
    \/ Return

Spec == Init /\ [][Next]_vars

---------------------------------------------------------------------------
\* Properties.

Done(op) == pc = "done" /\ req.op = op

\* The ids a bulk payload names, after validation.
PayloadIds == {ToInt(req.items[k].id) : k \in 1..Len(req.items)}

BodyIds == {resp.body[k].id : k \in 1..Len(resp.body)}

\* The payload is a list of items with integer ids.
PayloadValid ==
    req.isList /\ \A k \in 1..Len(req.items) : req.items[k].id \in [form : {"int", "str"}, n : Ids]

\* C1 as stated: a bulk update answered with 200 returns exactly one
\* representation per payload item, the i-th with the i-th payload id.
C1_PayloadOrder ==
    (Done("bulk_update") /\ resp.status = HTTP_200_OK) =>
        /\ Len(resp.body) = Len(req.items)
        /\ \A k \in 1..Len(resp.body) : resp.body[k].id = ToInt(req.items[k].id)

\* C1 amended: a bulk update answered with 200 returns exactly one
\* representation for each row of the view's queryset that the payload names,
\* in queryset (primary key) order, each showing the name some payload item
\* with that id gave; the list has the payload's length and order when the
\* payload's ids are integers, all in the queryset, and strictly ascending.
C1_QuerysetOrder ==
    (Done("bulk_update") /\ resp.status = HTTP_200_OK) =>
        /\ BodyIds = Queryset(tx, scope) \cap PayloadIds
        /\ \A k \in 1..Len(resp.body) - 1 : resp.body[k].id < resp.body[k + 1].id
        /\ \A k \in 1..Len(resp.body) :
               \E j \in 1..Len(req.items) :
                   /\ ToInt(req.items[j].id) = resp.body[k].id
                   /\ req.items[j].data.name = resp.body[k].name
        /\ (/\ PayloadIds \subseteq Queryset(tx, scope)
            /\ \A k \in 1..Len(req.items) - 1 :
                   ToInt(req.items[k].id) < ToInt(req.items[k + 1].id))
           => /\ Len(resp.body) = Len(req.items)
              /\ \A k \in 1..Len(resp.body) :
                     resp.body[k].id = ToInt(req.items[k].id)

\* A 200 whose payload lists two rows of the queryset in descending order and
\* whose body lists them ascending.
C1_Witness ==
    /\ Done("bulk_update") /\ resp.status = HTTP_200_OK
    /\ Len(req.items) = 2 /\ Len(resp.body) = 2
    /\ ToInt(req.items[1].id) = 2 /\ resp.body[1].id = 1

\* C2: a bulk update or bulk destroy that fails leaves every row as it was
\* before the request.
C2_AllOrNothing ==
    (/\ pc = "done"
     /\ req.op \in {"bulk_update", "bulk_destroy"}
     /\ resp.status \notin {HTTP_200_OK, HTTP_204_NO_CONTENT}) => db = tx

\* A bulk update that changed its first row inside the loop, failed on a later
\* one, and ended with the table restored.
C2_Witness ==
    /\ Done("bulk_update") /\ resp.status = HTTP_400_BAD_REQUEST
    /\ Len(out) >= 1
    /\ tx[out[1].id] # out[1].name
    /\ db = tx

\* C3: a sequential bulk create that fails leaves the table as it was before
\* the request.
C3_CreateAllOrNothing ==
    (Done("create") /\ resp.status # HTTP_201_CREATED) => db = tx

\* A list create that created its first row, failed on a later item, and ended
\* with the table restored.
C3_Witness ==
    /\ Done("create") /\ req.isList
    /\ resp.status = HTTP_400_BAD_REQUEST
    /\ Len(out) >= 1
    /\ tx[out[1].id] = Absent
    /\ db = tx

NamesIn(d) == {d[i] : i \in Ids} \ {Absent}

\* Whether a list of items passes when item k is validated against the names
\* present before the request plus the names of items 1..k-1.
RECURSIVE SeqAccepts(_, _)
SeqAccepts(names, items) ==
    IF items = <<>> THEN TRUE
    ELSE LET h == Head(items) IN
         /\ h.name # Blank
         /\ h.parent = NoParent \/ h.parent \in names
         /\ SeqAccepts(names \cup {h.name}, Tail(items))

\* C4: inside the create loop the table holds, beside the rows it had before
\* the request, exactly the rows created for the items processed so far, in
\* payload order, and the items validated so far are the payload's first
\* ones in order; a non-empty list is answered 201 exactly when every item k
\* is valid given the earlier rows and items 1..k-1.
C4_InOrder ==
    /\ (pc = "create" \/ Done("create")) /\ req.isList =>
        /\ Len(out) <= Len(req.creates)
        /\ Len(calls) \in {Len(out), Len(out) + 1}
        /\ \A k \in 1..Len(calls) : calls[k].data = req.creates[k]
    /\ pc = "create" =>
        /\ Len(calls) = Len(out)
        /\ \A k \in 1..Len(out) :
               /\ out[k].name = req.creates[k].name
               /\ tx[out[k].id] = Absent
               /\ db[out[k].id] = out[k].name
        /\ \A k, j \in 1..Len(out) : out[k].id = out[j].id => k = j
        /\ \A i \in Ids : (\A k \in 1..Len(out) : out[k].id # i) => db[i] = tx[i]
    /\ (Done("create") /\ req.isList /\ Len(req.creates) > 0) =>
        (resp.status = HTTP_201_CREATED <=> SeqAccepts(NamesIn(tx), req.creates))

\* A two-item list whose second item names the first as its parent, the
\* parent not existing before the request, answered 201.
C4_Witness ==
    /\ Done("create") /\ req.isList /\ Len(req.creates) = 2
    /\ req.creates[2].parent = req.creates[1].name
    /\ req.creates[1].name \notin NamesIn(tx)
    /\ resp.status = HTTP_201_CREATED

\* C5: a list body whose items are all valid is answered 201 with one
\* representation per item in payload order, for every length including 0; a
\* body that is not a list goes to the parent's create.
C5_ListCreated ==
    Done("create") =>
        /\ (req.isList /\ SeqAccepts(NamesIn(tx), req.creates)) =>
               /\ resp.status = HTTP_201_CREATED
               /\ Len(resp.body) = Len(req.creates)
               /\ \A k \in 1..Len(resp.body) :
                      resp.body[k].name = req.creates[k].name
        /\ ~req.isList => resp.handler = "super.create"

StrictSubset(A, B) == A \subseteq B /\ A # B

BriefFlag == req.method = "GET" /\ Truthy(req.brief)

Unchanged ==
    /\ resp.serializer = SerializerClass(req.model)
    /\ resp.annotations = req.annotations
    /\ resp.prefetch = req.prefetch

\* C6 as stated: a GET with the brief flag is serialized with a strict subset
\* of the full serializer's fields, for every model; any other request uses
\* the full serializer and leaves annotations and prefetches alone.
C6_AlwaysStrictSubset ==
    Done("serialize") =>
        /\ BriefFlag =>
               StrictSubset(resp.fields, SerializerFields(SerializerClass(req.model)))
        /\ (req.method # "GET" \/ req.brief = NoParam) => Unchanged

\* C6 amended: a GET with a non-empty brief parameter is serialized with the
\* model's nested serializer, a strict subset of the full one's fields, when
\* one is registered; with the full serializer when none is.  Either way the
\* annotations the chosen serializer lacks are dropped and the prefetches
\* replaced by brief_prefetch_fields.  Any other request (not a GET, or brief
\* absent or empty) uses the full serializer and leaves both alone.
C6_NestedWhenRegistered ==
    Done("serialize") =>
        /\ (BriefFlag /\ req.registered) =>
               /\ resp.serializer = "Nested" \o SerializerClass(req.model)
               /\ StrictSubset(resp.fields, SerializerFields(SerializerClass(req.model)))
        /\ (BriefFlag /\ ~req.registered) =>
               /\ resp.serializer = SerializerClass(req.model)
               /\ resp.fields = SerializerFields(SerializerClass(req.model))
        /\ BriefFlag =>
               /\ resp.annotations = {a \in req.annotations : a \in resp.fields}
               /\ resp.prefetch = {}
        /\ ~BriefFlag =>
               /\ Unchanged
               /\ resp.fields = SerializerFields(SerializerClass(req.model))

\* A brief GET for a model without a nested serializer, with annotations on
\* the queryset.
C6_Witness ==
    /\ Done("serialize") /\ req.method = "GET" /\ req.brief = "true"
    /\ ~req.registered
    /\ req.annotations # {} /\ req.prefetch # {}
    /\ resp.serializer = SerializerClass(req.model)

\* C7: _validate_objects raises ObjectDoesNotExist exactly when some given
\* instance is not in the view's queryset.
C7_RaisesIffOutside ==
    Done("validate") =>
        (resp.exc = "ObjectDoesNotExist" <=>
            \E k \in 1..Len(req.instance) :
                req.instance[k] \notin Queryset(db, scope))

ExportTemplateExists ==
    [content_type |-> ContentTypeOf(req.model), name |-> req.export] \in req.templates

\* C8: a list request with an export parameter and no template of that name
\* for the model's content type ends in 404 without any row data; with such a
\* template, in that template's rendering of the filtered queryset; without
\* the parameter, in the parent's list and no template.
C8_Export ==
    Done("list") =>
        /\ (req.export # NoParam /\ ~ExportTemplateExists) =>
               /\ resp.status = HTTP_404_NOT_FOUND
               /\ resp.exc = "Http404"
               /\ resp.body = <<>>
               /\ resp.template = NoParam
        /\ (req.export # NoParam /\ ExportTemplateExists) =>
               /\ resp.status = HTTP_200_OK
               /\ resp.handler = "render_to_response"
               /\ resp.template = req.export
               /\ BodyIds = {i \in Queryset(db, scope) :
                                req.filter = NoParam \/ db[i] = req.filter}
               /\ Len(resp.body) = Cardinality(BodyIds)
               /\ \A k \in 1..Len(resp.body) : resp.body[k].name = db[resp.body[k].id]
        /\ req.export = NoParam =>
               /\ resp.handler = "super.list"
               /\ resp.template = NoParam

\* An export of a name that exists only for the other content type, over a
\* non-empty queryset, answered 404.
C8_Witness ==
    /\ Done("list") /\ req.export = "csv"
    /\ \E t \in req.templates : t.name = "csv"
    /\ ~ExportTemplateExists
    /\ Queryset(db, scope) # {}
    /\ resp.status = HTTP_404_NOT_FOUND

C10_OwnFields ==
    (req.op = "bulk_update") =>
        \A k \in 1..Len(calls) :
            /\ calls[k].data # NoData
            /\ calls[k].partial = req.partial
            /\ \E j \in 1..Len(req.items) :
                   /\ ToInt(req.items[j].id) = calls[k].obj
                   /\ req.items[j].data = calls[k].data

=============================================================================
